---- MODULE Spec2Model ----
(***************************************************************************)
(* A state-machine model of the testcafe-testapp test harness: the page    *)
(* objects (TodosPage, LoginPage, DashboardPage), the role fixtures, the   *)
(* logout helper and the PerformanceHelper, together with the parts of the *)
(* application under test that they drive (todo list, login route,         *)
(* dashboard route, session cookie).                                       *)
(*                                                                         *)
(* The specifications of the module:                                      *)
(*   SpecTodos  the /todos page driven through TodosPage                   *)
(*   SpecApi    the todo API called over HTTP                              *)
(*   SpecSessions  two test sessions on the shared todo table              *)
(*   SpecCount  getTodoCount around a run of addTodo calls                 *)
(*   SpecAuth   the browser session driven through LoginPage and the       *)
(*              logout helper                                              *)
(*   SpecRoles  the role fixtures over the tests of a run                  *)
(*   SpecPerf   PerformanceHelper.start / end                              *)
(*   SpecGen    the generators of TestHelpers and ApiTestHelpers           *)
(*   SpecLog    the request logger over the tests of the home fixture      *)
(*   SpecDash   DashboardPage.verifyUserLoggedIn                           *)
(*   SpecCustom createCustomUserRole                                       *)
(*   SpecWait   WaitConditions.waitForUrl                                  *)
(*   SpecReady  HomePage.waitForApiReady                                   *)
(*   SpecClient ApiClient.query / mutate / batch                           *)
(*   SpecClear  TodosPage.clearAllTodos                                    *)
(*   SpecIncomplete  TodosPage.getIncompleteTodosCount beside another      *)
(*              session                                                    *)
(***************************************************************************)
EXTENDS Naturals, Integers, Sequences, FiniteSets, TLC

VARIABLES
    \* ---- todo list (server store, rendered as "ul li" rows) ----
    todos,          \* sequence of [id, text, completed], in list order
    nextId,         \* next auto-increment id of the todo table
    lastTodoOp,     \* the TodosPage operation of the last step: [op, arg, ok]
    repeated,       \* TRUE when the last step repeated the operation before it
    issued,         \* the ids the todo table has ever assigned
    lastApiOp,      \* the tRPC call of the last step: [op, text, id, completed, status]
    \* ---- test sessions on the shared todo table ----
    view,           \* session -> the rows its /todos page shows (its last fetch)
    owner,          \* todo id -> the session whose addTodo created it
    burst,          \* session -> its run of addTodo calls: [active, start, n, foreign]
    unseen,         \* session -> net rows other sessions added since its last fetch
    lastSessOp,     \* the session call of the last step: [op, session, text, id, ok]
    \* ---- PerformanceHelper ----
    measurements,   \* the timer map: a function from started keys to start times
    now,            \* Date.now()
    pending,        \* keys started and not ended since their last start
    lastPerfOp,     \* the PerformanceHelper call of the last step: [op, key, result]
    \* ---- auth server, browser and role fixtures ----
    web,            \* the auth server's accounts and the browser (a record)
    roles,          \* role name -> [phase, initErr, snapshot, redirectUrl, runs]
    testFailed,     \* TRUE when a call of the running test has failed
    lastAuthOp,     \* the operation of the last step: [op, ok, role, arg, setup]
    trip,           \* progress of the sign-up-then-sign-in test: [stage, user]
    \* ---- test helpers ----
    gen,            \* the generator calls: sequence of [fn, field, run, time, value]
    apiLogger,      \* the fixture's request logger: [requests, test]
    lastCall,       \* the helper call of the last step: [fn, input, result]
    \* ---- helper calls in progress (a call yields at each await) ----
    waiter,         \* WaitConditions.waitForUrl: [pc, timeout, elapsed, polls, ...]
    clearing,       \* TodosPage.clearAllTodos: [pc, count, deletes, rows]
    counting        \* TodosPage.getIncompleteTodosCount: [pc, total, count, ...]

sessVars == <<view, owner, burst, unseen, lastSessOp>>
todoVars == <<todos, nextId, lastTodoOp, repeated, issued, lastApiOp, sessVars>>
perfVars == <<measurements, now, pending, lastPerfOp>>
authVars == <<web, roles, testFailed, lastAuthOp, trip>>
procVars == <<waiter, clearing, counting>>
helpVars == <<gen, apiLogger, lastCall, procVars>>
vars == <<todoVars, perfVars, authVars, helpVars>>

(***************************************************************************)
(* Bounds of the model.                                                    *)
(***************************************************************************)
MaxTodos == 3       \* most rows in the list
MaxId == 4          \* most todos ever created
MaxTime == 3        \* last clock value
MaxRows == 2        \* most rows in the table shared by the test sessions
MaxAdds == 3        \* most todos the test sessions ever create

\* Todo texts, as sequences of characters: two unrelated texts and one that
\* contains both of them.
Texts == {<<"a">>, <<"b">>, <<"a", "b">>}

(***************************************************************************)
(* The todo table and the rows the /todos page renders.                    *)
(***************************************************************************)

\* A row of the todo table.
Todo(id, text, completed) == [id |-> id, text |-> text, completed |-> completed]

\* Selector.withText(text): the element's text contains text (case-sensitive).
WithText(label, text) ==
    \E i \in 1..(Len(label) - Len(text) + 1) :
        SubSeq(label, i, i + Len(text) - 1) = text

\* The list with row i removed.
RemoveAt(list, i) == SubSeq(list, 1, i - 1) \o SubSeq(list, i + 1, Len(list))

\* todo.create: a new row with the next id, not completed, at the end.
CreateTodo(list, id, text) == Append(list, Todo(id, text, FALSE))

\* The row's checkbox: todo.toggle({id, completed: !completed}).
ClickCheckbox(list, i) == [list EXCEPT ![i].completed = ~list[i].completed]

\* The row's "Delete todo" button: todo.delete({id}).
ClickDelete(list, i) == RemoveAt(list, i)

\* TodosPage.getTodoCount: the number of "ul li" rows.
GetTodoCount(list) == Len(list)

\* TodosPage.getTodoByText: the rows whose label contains text, in list order.
GetTodoByText(list, text) == {i \in 1..Len(list) : WithText(list[i].text, text)}

\* TodosPage.todoExists: the selector matches at least one row.
TodoExists(list, text) == GetTodoByText(list, text) # {}

\* An action on a selector that matches several elements acts on the first.
FirstOf(S) == CHOOSE i \in S : \A j \in S : i <= j

\* A slip in toggleTodoByText: the delete button is clicked, not the checkbox.
ToggleClicksDeleteButton(list, text) ==
    ClickDelete(list, FirstOf(GetTodoByText(list, text)))

\* TodosPage.toggleTodoByText: click the checkbox of the first matching row.
ToggleTodoByTextEffect(list, text) ==
    ClickCheckbox(list, FirstOf(GetTodoByText(list, text)))

\* A slip in deleteTodoByText: the row is taken by index 0, not by its text.
DeleteClicksFirstRow(list, text) == ClickDelete(list, 1)

\* TodosPage.deleteTodoByText: click the delete button of the first matching row.
DeleteTodoByTextEffect(list, text) ==
    ClickDelete(list, FirstOf(GetTodoByText(list, text)))

\* A slip in addTodo: the text is typed and the Add button never clicked.
AddTodoWithoutClick(list, id, text) == list

\* TodosPage.addTodo: type the text (replacing the input) and click Add.
AddTodoEffect(list, id, text) == CreateTodo(list, id, text)

\* Two test sessions (two browsers of one test run) share the todo table.
Sessions == {"A", "B"}

NoBurst == [active |-> FALSE, start |-> 0, n |-> 0, foreign |-> 0]

NoSessOp == [op |-> "none", session |-> "", text |-> <<>>, id |-> 0, ok |-> FALSE]

NoApiOp ==
    [op |-> "none", text |-> <<>>, id |-> 0, completed |-> FALSE, status |-> 0]

TodoStep(op, arg, ok) ==
    /\ lastTodoOp' = [op |-> op, arg |-> arg, ok |-> ok]
    /\ lastApiOp' = NoApiOp
    /\ repeated' = (ok /\ lastTodoOp = [op |-> op, arg |-> arg, ok |-> TRUE])

AddTodo(text) ==
    /\ Len(todos) < MaxTodos
    /\ nextId <= MaxId
    /\ todos' = AddTodoEffect(todos, nextId, text)
    /\ nextId' = nextId + 1
    /\ issued' = issued \cup {nextId}
    /\ TodoStep("addTodo", text, TRUE)
    /\ UNCHANGED <<perfVars, authVars, helpVars, sessVars>>

\* With no matching row the click fails and the list is left alone.
ToggleTodoByText(text) ==
    /\ IF TodoExists(todos, text)
       THEN /\ todos' = ToggleTodoByTextEffect(todos, text)
            /\ TodoStep("toggleTodoByText", text, TRUE)
       ELSE /\ todos' = todos
            /\ TodoStep("toggleTodoByText", text, FALSE)
    /\ UNCHANGED <<nextId, issued, perfVars, authVars, helpVars, sessVars>>

DeleteTodoByText(text) ==
    /\ IF TodoExists(todos, text)
       THEN /\ todos' = DeleteTodoByTextEffect(todos, text)
            /\ TodoStep("deleteTodoByText", text, TRUE)
       ELSE /\ todos' = todos
            /\ TodoStep("deleteTodoByText", text, FALSE)
    /\ UNCHANGED <<nextId, issued, perfVars, authVars, helpVars, sessVars>>

NoTodoOp == [op |-> "none", arg |-> <<>>, ok |-> FALSE]

InitTodos ==
    /\ todos = <<>>
    /\ nextId = 1
    /\ lastTodoOp = NoTodoOp
    /\ repeated = FALSE
    /\ issued = {}
    /\ lastApiOp = NoApiOp
    /\ view = [s \in Sessions |-> <<>>]
    /\ owner = [id \in {} |-> "A"]
    /\ burst = [s \in Sessions |-> NoBurst]
    /\ unseen = [s \in Sessions |-> 0]
    /\ lastSessOp = NoSessOp

(***************************************************************************)
(* The todo API (tRPC over HTTP): todo.getAll, todo.create, todo.toggle    *)
(* and todo.delete, called by the API tests on the same todo table.        *)
(***************************************************************************)
\* The texts the API tests post: the page's texts and the empty text.
ApiTexts == Texts \cup {<<>>}

StatusOk == 200
StatusBadRequest == 400

\* The column default of todo.completed.
DefaultCompleted == FALSE

\* A rowid taken from the rows alone: one more than the largest id stored.
LargestRowidPlusOne(list, seq) ==
    IF list = <<>> THEN 1
    ELSE 1 + (CHOOSE m \in {list[i].id : i \in 1..Len(list)} :
                 \A i \in 1..Len(list) : list[i].id <= m)

\* The id of an inserted row: the primary key is AUTOINCREMENT, so it comes
\* from the table's sequence (seq is the next value), never from the rows.
NextTodoId(list, seq) == seq

\* An insert that stores the row as completed.
InsertTodoCompleted(list, id, text) == Append(list, Todo(id, text, TRUE))

\* An insert into the todo table: the row gets its id and the defaults.
InsertTodo(list, id, text) == Append(list, Todo(id, text, DefaultCompleted))

\* todo.getAll: every row of the table.
GetAll(list) == list

\* The ids of the todos getAll returns.
TodoIds(list) == {list[i].id : i \in 1..Len(list)}

\* A create that stores any text.
CreateAcceptsAnyText(text) == TRUE

\* todo.create's input validation: the text must not be empty.
ValidCreateInput(text) == Len(text) >= 1

\* A toggle that sets every row.
ToggleSetsEveryRow(list, id, completed) ==
    [i \in 1..Len(list) |-> [list[i] EXCEPT !.completed = completed]]

\* todo.toggle: set completed on the row with the id.
ServerToggle(list, id, completed) ==
    [i \in 1..Len(list) |->
        IF list[i].id = id THEN [list[i] EXCEPT !.completed = completed]
        ELSE list[i]]

\* A delete that removes the row at the position the id names.
DeleteByPosition(list, id) ==
    IF id <= Len(list) THEN RemoveAt(list, id) ELSE list

\* todo.delete: remove the row with the id.
ServerDelete(list, id) ==
    LET Keep(row) == row.id # id IN SelectSeq(list, Keep)

ApiStep(op, text, id, completed, status) ==
    /\ lastApiOp' = [op |-> op, text |-> text, id |-> id,
                     completed |-> completed, status |-> status]
    /\ lastTodoOp' = NoTodoOp
    /\ repeated' = FALSE
    /\ UNCHANGED <<perfVars, authVars, helpVars, sessVars>>

\* POST /trpc/todo.create {text}.
ApiCreate(text) ==
    IF ValidCreateInput(text)
    THEN LET id == NextTodoId(todos, nextId)
         IN  /\ Len(todos) < MaxTodos
             /\ id <= MaxId
             /\ todos' = InsertTodo(todos, id, text)
             /\ nextId' = id + 1
             /\ issued' = issued \cup {id}
             /\ ApiStep("create", text, id, DefaultCompleted, StatusOk)
    ELSE /\ UNCHANGED <<todos, nextId, issued>>
         /\ ApiStep("create", text, 0, FALSE, StatusBadRequest)

\* POST /trpc/todo.toggle {id, completed}.
ApiToggle(id, completed) ==
    /\ todos' = ServerToggle(todos, id, completed)
    /\ UNCHANGED <<nextId, issued>>
    /\ ApiStep("toggle", <<>>, id, completed, StatusOk)

\* POST /trpc/todo.delete {id}.
ApiDelete(id) ==
    /\ todos' = ServerDelete(todos, id)
    /\ UNCHANGED <<nextId, issued>>
    /\ ApiStep("delete", <<>>, id, FALSE, StatusOk)

(***************************************************************************)
(* Test sessions. Each session drives its own /todos page through          *)
(* TodosPage; the pages share the server's todo table. A page shows the    *)
(* rows of its last todo.getAll and fetches again after each of its own    *)
(* create, toggle and delete calls and on every load.                      *)
(***************************************************************************)
\* The random suffixes Math.random().toString(36).substring(7) can give: the
\* string has a varying number of digits, so the suffix can be empty.
Suffixes == {<<>>, <<"a">>}

\* TestHelpers.generateTodoText: `Test Todo ${Date.now()} - ${suffix}`.
GenerateTodoText(time, rnd) == <<"Test Todo ", ToString(time), " - ">> \o rnd

\* A page that shows no row after it has loaded.
LoadTodosPageEmpty(store) == <<>>

\* The rows the /todos page shows after it has loaded: those of todo.getAll.
LoadTodosPage(store) == GetAll(store)

\* The texts of the rows a session's page shows that the session created.
OwnTexts(s) ==
    {view[s][i].text : i \in {j \in 1..Len(view[s]) : owner[view[s][j].id] = s}}

\* The row of a session's page a by-text call acts on: the first match.
FirstMatch(s, text) == view[s][FirstOf(GetTodoByText(view[s], text))]

\* The end of a session call: the session's page has fetched the table, and
\* the other sessions have not yet seen the rows the call added or removed.
SessStep(op, s, text, id, ok) ==
    /\ lastSessOp' = [op |-> op, session |-> s, text |-> text, id |-> id,
                      ok |-> ok]
    /\ view' = [view EXCEPT ![s] = LoadTodosPage(todos')]
    /\ unseen' = [o \in Sessions |->
                     IF o = s THEN 0
                     ELSE unseen[o] + Len(todos') - Len(todos)]
    /\ lastTodoOp' = NoTodoOp
    /\ repeated' = FALSE
    /\ lastApiOp' = NoApiOp
    /\ UNCHANGED <<perfVars, authVars, helpVars>>

\* TodosPage.open / BasePage.refresh in session s.
Refresh(s) ==
    /\ UNCHANGED <<todos, nextId, issued, owner>>
    /\ burst' = [burst EXCEPT ![s] = NoBurst]
    /\ SessStep("refresh", s, <<>>, 0, TRUE)

\* TodosPage.getTodoCount in session s, read before a run of addTodo calls.
ReadCount(s) ==
    /\ burst' = [burst EXCEPT ![s] =
                    [active |-> TRUE, start |-> GetTodoCount(view[s]),
                     n |-> 0, foreign |-> 0]]
    /\ lastSessOp' = [op |-> "getTodoCount", session |-> s, text |-> <<>>,
                      id |-> 0, ok |-> TRUE]
    /\ lastTodoOp' = NoTodoOp
    /\ repeated' = FALSE
    /\ lastApiOp' = NoApiOp
    /\ UNCHANGED <<todos, nextId, issued, owner, view, unseen, perfVars,
                   authVars, helpVars>>

\* TodosPage.addTodo(TestHelpers.generateTodoText()) in session s.
SessionAddTodo(s, rnd) ==
    LET text == GenerateTodoText(now, rnd)
        id == NextTodoId(todos, nextId)
    IN  /\ Len(todos) < MaxRows
        /\ id <= MaxAdds
        /\ todos' = AddTodoEffect(todos, id, text)
        /\ nextId' = id + 1
        /\ issued' = issued \cup {id}
        /\ owner' = [i \in DOMAIN owner \cup {id} |->
                        IF i = id THEN s ELSE owner[i]]
        /\ burst' = [burst EXCEPT ![s] =
                        IF burst[s].active
                        THEN [burst[s] EXCEPT
                                 !.n = burst[s].n + 1,
                                 !.foreign = burst[s].foreign + unseen[s]]
                        ELSE burst[s]]
        /\ SessStep("addTodo", s, text, id, TRUE)

\* TodosPage.toggleTodoByText(text) in session s, for a text of its own.
SessionToggleTodoByText(s, text) ==
    /\ text \in OwnTexts(s)
    /\ todos' = ServerToggle(todos, FirstMatch(s, text).id,
                             ~FirstMatch(s, text).completed)
    /\ burst' = [burst EXCEPT ![s] = NoBurst]
    /\ UNCHANGED <<nextId, issued, owner>>
    /\ SessStep("toggleTodoByText", s, text, FirstMatch(s, text).id, TRUE)

\* TodosPage.deleteTodoByText(text) in session s, for a text of its own.
SessionDeleteTodoByText(s, text) ==
    /\ text \in OwnTexts(s)
    /\ todos' = ServerDelete(todos, FirstMatch(s, text).id)
    /\ burst' = [burst EXCEPT ![s] = NoBurst]
    /\ UNCHANGED <<nextId, issued, owner>>
    /\ SessStep("deleteTodoByText", s, text, FirstMatch(s, text).id, TRUE)

(***************************************************************************)
(* PerformanceHelper.                                                      *)
(***************************************************************************)
\* The timer keys of the todo performance test.
PerfKeys == {"addTodo", "toggleTodo", "deleteTodo"}

NoPerfOp == [op |-> "none", key |-> "", result |-> "none", value |-> 0]

\* Map.get(key): the value, or undefined.
MapGet(map, key) ==
    IF key \in DOMAIN map
    THEN [found |-> TRUE, value |-> map[key]]
    ELSE [found |-> FALSE, value |-> 0]

\* Map.set(key, value).
MapSet(map, key, value) ==
    [k \in DOMAIN map \cup {key} |-> IF k = key THEN value ELSE map[k]]

\* Map.delete(key).
MapDelete(map, key) == [k \in DOMAIN map \ {key} |-> map[k]]

\* !startTime: undefined and 0 are falsy.
EndThrows(map, key) ==
    LET startTime == MapGet(map, key)
    IN  ~startTime.found \/ startTime.value = 0

\* Date.now() - startTime.
EndDuration(map, key, time) == time - MapGet(map, key).value

\* A slip in end: the key is not deleted.
EndKeepsKey(map, key) == map

\* The timer map after a successful end(key).
EndMap(map, key) == MapDelete(map, key)

PerfStart(key) ==
    /\ measurements' = MapSet(measurements, key, now)
    /\ pending' = pending \cup {key}
    /\ lastPerfOp' = [op |-> "start", key |-> key, result |-> "none", value |-> 0]
    /\ UNCHANGED <<now, todoVars, authVars, helpVars>>

PerfEnd(key) ==
    /\ IF EndThrows(measurements, key)
       THEN /\ lastPerfOp' = [op |-> "end", key |-> key, result |-> "throw",
                               value |-> 0]
            /\ UNCHANGED <<measurements, pending>>
       ELSE /\ lastPerfOp' = [op |-> "end", key |-> key, result |-> "duration",
                               value |-> EndDuration(measurements, key, now)]
            /\ measurements' = EndMap(measurements, key)
            /\ pending' = pending \ {key}
    /\ UNCHANGED <<now, todoVars, authVars, helpVars>>

\* Time passes between two calls.
Tick ==
    /\ now < MaxTime
    /\ now' = now + 1
    /\ lastPerfOp' = [op |-> "tick", key |-> "", result |-> "none", value |-> 0]
    /\ UNCHANGED <<measurements, pending, todoVars, authVars, helpVars>>

\* Date.now() is a positive number of milliseconds.
InitPerf ==
    /\ measurements = [k \in {} |-> 0]
    /\ now = 1
    /\ pending = {}
    /\ lastPerfOp = NoPerfOp


(***************************************************************************)
(* The auth server, the browser session and the login / dashboard routes.  *)
(* web is one record: users (the registered accounts, a set of [email,     *)
(* name, password]), cookies (the browser's cookie jar, a set of [name,    *)
(* value, httpOnly]), localStorage (the keys stored), path, showSignIn     *)
(* (the login route's useState), form (the text in the login form's        *)
(* fields), errors (the validation messages shown) and routeSession (the   *)
(* session user the dashboard route loaded).                               *)
(***************************************************************************)
MinNameLen == 2         \* "Name must be at least 2 characters"
MinPasswordLen == 8     \* "Password must be at least 8 characters"

\* Emails are sequences of characters; names and passwords are strings.
NoUser == <<>>
Emails == {<<"u">>, <<"u", "@", "x">>, <<"v", "@", "x">>}
Names == {"A", "Al", "Bo"}
Passwords == {"short", "TestPass1!", "TestPass2!"}

NameError == "Name must be at least 2 characters"
EmailError == "Invalid email address"
PasswordError == "Password must be at least 8 characters"

\* A syntactically valid address: one "@" with text on both sides.
ValidEmail(email) ==
    \E i \in 2..(Len(email) - 1) :
        /\ email[i] = "@"
        /\ \A j \in 1..Len(email) : j # i => email[j] # "@"

\* The sign-up form's field validators.
SignUpErrors(f) ==
    (IF Len(f.name) < MinNameLen THEN {NameError} ELSE {})
        \cup (IF ~ValidEmail(f.email) THEN {EmailError} ELSE {})
        \cup (IF Len(f.password) < MinPasswordLen THEN {PasswordError} ELSE {})

\* The sign-in form's field validators.
SignInErrors(f) ==
    (IF ~ValidEmail(f.email) THEN {EmailError} ELSE {})
        \cup (IF Len(f.password) < MinPasswordLen THEN {PasswordError} ELSE {})

SessionCookieName == "better-auth.session_token"

\* The session cookie the auth server sets: httpOnly (defaultCookieAttributes).
SessionCookie(email) ==
    [name |-> SessionCookieName, value |-> email, httpOnly |-> TRUE]

\* Set-Cookie: a cookie replaces the one of the same name.
SetCookie(jar, cookie) == {c \in jar : c.name # cookie.name} \cup {cookie}

Registered(accounts) == {u.email : u \in accounts}

\* authClient.getSession(): the user of the session cookie, or none.
GetSession(w) ==
    IF \E c \in w.cookies :
           c.name = SessionCookieName /\ c.value \in Registered(w.users)
    THEN (CHOOSE c \in w.cookies : c.name = SessionCookieName).value
    ELSE NoUser

UserName(accounts, email) == (CHOOSE u \in accounts : u.email = email).name

\* /login beforeLoad: a browser with a session is redirected to "/".
LoginRouteTarget(w) == IF GetSession(w) # NoUser THEN "/" ELSE "/login"

\* A dashboard route without the guard.
DashboardRouteUnguarded(w) == "/dashboard"

\* /dashboard beforeLoad: a browser without a session is redirected to /login.
DashboardRouteTarget(w) ==
    IF GetSession(w) = NoUser THEN "/login" ELSE "/dashboard"

EmptyForm == [name |-> "", email |-> <<>>, password |-> ""]

\* A login route whose useState starts with the sign-in form.
LoadRouteShowsSignIn(w, target) ==
    [w EXCEPT !.path = target,
              !.showSignIn = TRUE,
              !.form = EmptyForm,
              !.errors = {},
              !.routeSession =
                  IF target = "/dashboard" THEN GetSession(w) ELSE NoUser]

\* The browser after it has loaded the route at target.
LoadRoute(w, target) ==
    [w EXCEPT !.path = target,
              !.showSignIn = FALSE,
              !.form = EmptyForm,
              !.errors = {},
              !.routeSession =
                  IF target = "/dashboard" THEN GetSession(w) ELSE NoUser]

\* BasePage.navigate(p): the route's beforeLoad decides where the browser ends.
Navigate(w, p) ==
    LoadRoute(w, IF p = "/login" THEN LoginRouteTarget(w)
                 ELSE IF p = "/dashboard" THEN DashboardRouteTarget(w)
                 ELSE p)

\* What document.cookie shows to a script: the cookies that are not httpOnly.
DocumentCookie(jar) == {c \in jar : ~c.httpOnly}

\* The script of guestUser and logout: localStorage.clear(), and every cookie
\* named in document.cookie is overwritten with an expired one.
ClearScript(w) ==
    [w EXCEPT !.localStorage = {},
              !.cookies = w.cookies \ DocumentCookie(w.cookies)]

\* LoginPage.isOnSignUpForm / isOnSignInForm: the form's title exists.
IsOnSignUpForm(w) == w.path = "/login" /\ ~w.showSignIn
IsOnSignInForm(w) == w.path = "/login" /\ w.showSignIn

\* The name DashboardPage.getUserName parses from "Welcome <name>".
DisplayedName(w) ==
    IF w.path = "/dashboard" /\ w.routeSession # NoUser
    THEN UserName(w.users, w.routeSession)
    ELSE ""

\* The sign-up form's submit: validate, then create the account and its
\* session and go to /dashboard; an invalid form or a taken email stays.
SubmitSignUp(w) ==
    LET errs == SignUpErrors(w.form)
    IN  IF errs # {} \/ w.form.email \in Registered(w.users)
        THEN [w EXCEPT !.errors = errs]
        ELSE Navigate([w EXCEPT !.users = w.users \cup {w.form},
                                !.cookies = SetCookie(w.cookies,
                                                SessionCookie(w.form.email))],
                      "/dashboard")

\* The sign-in form's submit: validate, then open a session for matching
\* credentials and go to /dashboard; anything else stays.
SubmitSignIn(w) ==
    LET errs == SignInErrors(w.form)
        known == \E u \in w.users :
                     u.email = w.form.email /\ u.password = w.form.password
    IN  IF errs # {} \/ ~known
        THEN [w EXCEPT !.errors = errs]
        ELSE Navigate([w EXCEPT !.cookies = SetCookie(w.cookies,
                                                SessionCookie(w.form.email))],
                      "/dashboard")

\* LoginPage.switchToSignIn: click only when the sign-up form is shown; the
\* sign-in form is then mounted afresh.
DoSwitchToSignIn(w) ==
    IF IsOnSignUpForm(w)
    THEN [w EXCEPT !.showSignIn = TRUE, !.form = EmptyForm, !.errors = {}]
    ELSE w

\* A switchToSignUp that clicks the toggle whichever form is shown.
SwitchToSignUpAlwaysClicks(w) ==
    IF w.path = "/login"
    THEN [w EXCEPT !.showSignIn = ~w.showSignIn, !.form = EmptyForm,
                   !.errors = {}]
    ELSE w

\* LoginPage.switchToSignUp: click only when the sign-in form is shown.
DoSwitchToSignUp(w) ==
    IF IsOnSignInForm(w)
    THEN [w EXCEPT !.showSignIn = FALSE, !.form = EmptyForm, !.errors = {}]
    ELSE w

\* LoginPage.fillSignUpForm: switch to the sign-up form, then t.typeText into
\* the three fields ({replace: true}). Off the login page the fields do not
\* exist and the call fails.
DoFillSignUpForm(w, name, email, password) ==
    IF w.path # "/login" THEN w
    ELSE [DoSwitchToSignUp(w) EXCEPT
             !.form = [name |-> name, email |-> email, password |-> password]]

\* LoginPage.fillSignInForm.
DoFillSignInForm(w, email, password) ==
    IF w.path # "/login" THEN w
    ELSE [DoSwitchToSignIn(w) EXCEPT
             !.form = [name |-> "", email |-> email, password |-> password]]

\* LoginPage.signUp: fill the sign-up form and click Sign Up.
DoSignUp(w, name, email, password) ==
    IF w.path # "/login" THEN w
    ELSE SubmitSignUp(DoFillSignUpForm(w, name, email, password))

\* LoginPage.signIn: fill the sign-in form and click Sign In.
DoSignIn(w, email, password) ==
    IF w.path # "/login" THEN w
    ELSE SubmitSignIn(DoFillSignInForm(w, email, password))

\* LoginPage.clearForm: select and delete the text of every field shown.
DoClearForm(w) == IF w.path # "/login" THEN w ELSE [w EXCEPT !.form = EmptyForm]

\* A submitForm that always submits through the sign-in handler.
SubmitFormClicksSignIn(w) == IF w.path = "/login" THEN SubmitSignIn(w) ELSE w

\* LoginPage.submitForm: click the submit button of the form that is shown.
DoSubmitForm(w) ==
    IF IsOnSignUpForm(w) THEN SubmitSignUp(w)
    ELSE IF IsOnSignInForm(w) THEN SubmitSignIn(w)
    ELSE w

\* logout(t): the clearing script, then navigate to the home page.
DoLogout(w) == Navigate(ClearScript(w), "/")

(***************************************************************************)
(* Role fixtures. roles maps each role to [phase, initErr, snapshot,       *)
(* redirectUrl, runs]: whether its setup has run, whether that setup       *)
(* failed, the cookies and local storage captured at its end, the page it  *)
(* ended on, and how many times the setup has run.                         *)
(***************************************************************************)
RoleNames == {"guestUser", "regularUser", "adminUser", "customUser"}

\* The page a role's setup starts on: Role(loginUrl, ...).
RoleLoginUrl(r) == IF r = "guestUser" THEN "/" ELSE "/login"

\* The roles declared with {preserveUrl: true}.
PreserveUrl(r) == r # "guestUser"

\* The credentials a role's setup uses. regularUser and adminUser generate
\* an address no other account has; customUser stands for one role returned
\* by createCustomUserRole(name, email, password).
RoleUser(r) ==
    IF r = "regularUser"
    THEN [name |-> "Test User", email |-> <<"r", "@", "x">>,
          password |-> "TestPass0!"]
    ELSE IF r = "adminUser"
    THEN [name |-> "Admin User", email |-> <<"a", "@", "x">>,
          password |-> "TestPass0!"]
    ELSE [name |-> "Bo", email |-> <<"v", "@", "x">>,
          password |-> "TestPass2!"]

\* A guest setup that stores a key instead of clearing the storage.
GuestInitSeedsStorage(w) == [w EXCEPT !.localStorage = {"theme"}]

\* guestUser's setup: the clearing script.
GuestInit(w) == ClearScript(w)

\* regularUser's and adminUser's setup: sign up with the role's credentials.
SignUpInit(r, w) ==
    DoSignUp(w, RoleUser(r).name, RoleUser(r).email, RoleUser(r).password)

\* A custom setup that signs up whatever the sign-in attempt did.
CustomSetupAlwaysSignsUp(r, w) ==
    LET u == RoleUser(r)
        w1 == DoSignIn(w, u.email, u.password)
    IN  [web |-> DoSignUp(w1, u.name, u.email, u.password),
         calls |-> <<"signIn", "signUp">>]

\* The setup of a role from createCustomUserRole: sign in, and sign up when
\* the browser is still on /login. The result is the browser the setup ends
\* with and the LoginPage calls it made.
CustomSetup(r, w) ==
    LET u == RoleUser(r)
        w1 == DoSignIn(w, u.email, u.password)
    IN  IF w1.path = "/login"
        THEN [web |-> DoSignUp(w1, u.name, u.email, u.password),
              calls |-> <<"signIn", "signUp">>]
        ELSE [web |-> w1, calls |-> <<"signIn">>]

CustomInit(r, w) == CustomSetup(r, w).web

RoleInit(r, w) ==
    IF r = "guestUser" THEN GuestInit(w)
    ELSE IF r = "customUser" THEN CustomInit(r, w)
    ELSE SignUpInit(r, w)

NoSnapshot == [cookies |-> {}, localStorage |-> {}]

NewRole ==
    [phase |-> "uninitialized", initErr |-> FALSE, snapshot |-> NoSnapshot,
     redirectUrl |-> "", runs |-> 0]

\* The browser with no cookie and no stored key.
CleanRun(w) == [w EXCEPT !.cookies = {}, !.localStorage = {}]

\* The first t.useRole(r): the setup runs in a clean browser opened on the
\* role's login page, and the cookies and local storage it ends with are
\* captured; healthy says whether the application answers during the setup.
\* The result is [web, role, failed].
InitializeRole(w, role, r, healthy) ==
    IF ~healthy
    THEN [web |-> CleanRun(w),
          role |-> [role EXCEPT !.phase = "initialized", !.initErr = TRUE,
                                !.runs = role.runs + 1],
          failed |-> TRUE]
    ELSE LET w1 == RoleInit(r, Navigate(CleanRun(w), RoleLoginUrl(r)))
         IN  [web |-> Navigate(w1, IF PreserveUrl(r) THEN w1.path ELSE w.path),
              role |-> [phase |-> "initialized", initErr |-> FALSE,
                        snapshot |-> [cookies |-> w1.cookies,
                                      localStorage |-> w1.localStorage],
                        redirectUrl |-> w1.path,
                        runs |-> role.runs + 1],
              failed |-> FALSE]

\* A later t.useRole(r) of a role whose setup succeeded: the captured cookies
\* and local storage replace the browser's.
RestoreRole(w, role, r) ==
    LET w1 == [w EXCEPT !.cookies = role.snapshot.cookies,
                        !.localStorage = role.snapshot.localStorage]
    IN  [web |-> Navigate(w1, IF PreserveUrl(r) THEN role.redirectUrl
                              ELSE w.path),
         role |-> role,
         failed |-> FALSE]

\* A useRole that runs the setup on every use.
UseRoleAlwaysInitializes(w, role, r, healthy) ==
    InitializeRole(w, role, r, healthy)

\* A useRole that runs the setup again after it has failed.
UseRoleRetriesFailedSetup(w, role, r, healthy) ==
    IF role.phase = "uninitialized" \/ role.initErr
    THEN InitializeRole(w, role, r, healthy)
    ELSE RestoreRole(w, role, r)

\* t.useRole(r): the setup on the first use; afterwards the captured state,
\* or the error the setup failed with.
UseRole(w, role, r, healthy) ==
    IF role.phase = "uninitialized"
    THEN InitializeRole(w, role, r, healthy)
    ELSE IF role.initErr
    THEN [web |-> w, role |-> role, failed |-> TRUE]
    ELSE RestoreRole(w, role, r)

(***************************************************************************)
(* The steps of a test run. A test starts in a browser without cookies or  *)
(* stored keys on the fixture's page, then runs its beforeEach hook; a     *)
(* failed call ends the test, and the next step is the start of another.   *)
(***************************************************************************)
NoTrip ==
    [stage |-> "none", user |-> [name |-> "", email |-> <<>>, password |-> ""]]

InitAuth ==
    /\ web = [users |-> {}, cookies |-> {}, localStorage |-> {}, path |-> "/",
              showSignIn |-> FALSE, form |-> EmptyForm, errors |-> {},
              routeSession |-> NoUser]
    /\ roles = [r \in RoleNames |-> NewRole]
    /\ testFailed = FALSE
    /\ lastAuthOp = [op |-> "none", ok |-> FALSE, role |-> "none",
                     arg |-> NoTrip.user, setup |-> FALSE]
    /\ trip = NoTrip

\* The progress of the test "sign up then sign in with same account": a new
\* account signed up and on the dashboard, LoginPage.open(), then signIn with
\* the same credentials.
TripAfter(op, u, w2) ==
    IF op = "signUp" /\ u \in w2.users \ web.users
    THEN [stage |-> "signedUp", user |-> u]
    ELSE IF op = "openLogin" /\ trip.stage = "signedUp"
    THEN [trip EXCEPT !.stage = "reopened"]
    ELSE IF op = "signIn" /\ trip.stage = "reopened"
            /\ u.email = trip.user.email /\ u.password = trip.user.password
    THEN [trip EXCEPT !.stage = "signedIn"]
    ELSE NoTrip

\* One call of a test body: the browser becomes w2, and a failed call ends
\* the test.
TestStepEffect(op, u, w2, failed) ==
    /\ ~testFailed
    /\ web' = w2
    /\ testFailed' = failed
    /\ lastAuthOp' = [op |-> op, ok |-> ~failed, role |-> "none", arg |-> u,
                      setup |-> FALSE]
    /\ trip' = TripAfter(op, u, w2)
    /\ UNCHANGED <<roles, todoVars, perfVars>>

TestStep(op, u, w2, failed) ==
    /\ TestStepEffect(op, u, w2, failed)
    /\ UNCHANGED helpVars

\* The start of a test whose beforeEach calls t.useRole(r).
StartTestEffect(r, healthy) ==
    LET res == UseRole(Navigate(CleanRun(web), "/"), roles[r], r, healthy)
    IN  /\ web' = res.web
        /\ roles' = [roles EXCEPT ![r] = res.role]
        /\ testFailed' = res.failed
        /\ lastAuthOp' = [op |-> "useRole", ok |-> ~res.failed, role |-> r,
                          arg |-> NoTrip.user,
                          setup |-> res.role.runs # roles[r].runs]
        /\ trip' = NoTrip
        /\ UNCHANGED <<todoVars, perfVars>>

StartTest(r, healthy) ==
    /\ StartTestEffect(r, healthy)
    /\ UNCHANGED helpVars

\* The start of a test of a fixture without a beforeEach hook.
StartPlainTest ==
    /\ web' = Navigate(CleanRun(web), "/")
    /\ testFailed' = FALSE
    /\ lastAuthOp' = [op |-> "startTest", ok |-> TRUE, role |-> "none",
                      arg |-> NoTrip.user, setup |-> FALSE]
    /\ trip' = NoTrip
    /\ UNCHANGED <<roles, todoVars, perfVars, helpVars>>

\* LoginPage.open / DashboardPage.open / HomePage.open.
OpenLogin == TestStep("openLogin", NoTrip.user, Navigate(web, "/login"), FALSE)

OpenDashboard ==
    TestStep("openDashboard", NoTrip.user, Navigate(web, "/dashboard"), FALSE)

OpenHome == TestStep("openHome", NoTrip.user, Navigate(web, "/"), FALSE)

SwitchToSignIn ==
    TestStep("switchToSignIn", NoTrip.user, DoSwitchToSignIn(web), FALSE)

SwitchToSignUp ==
    TestStep("switchToSignUp", NoTrip.user, DoSwitchToSignUp(web), FALSE)

SignUp(name, email, password) ==
    TestStep("signUp",
             [name |-> name, email |-> email, password |-> password],
             DoSignUp(web, name, email, password), web.path # "/login")

SignIn(email, password) ==
    TestStep("signIn", [name |-> "", email |-> email, password |-> password],
             DoSignIn(web, email, password), web.path # "/login")

FillSignUpForm(name, email, password) ==
    TestStep("fillSignUpForm",
             [name |-> name, email |-> email, password |-> password],
             DoFillSignUpForm(web, name, email, password),
             web.path # "/login")

ClearForm ==
    TestStep("clearForm", NoTrip.user, DoClearForm(web), web.path # "/login")

SubmitForm ==
    TestStep("submitForm", web.form, DoSubmitForm(web), web.path # "/login")

Logout == TestStep("logout", NoTrip.user, DoLogout(web), FALSE)

StorageKeys == {"theme"}

\* StorageHelper.setItem.
SetItem(key) ==
    TestStep("setItem", NoTrip.user,
             [web EXCEPT !.localStorage = web.localStorage \cup {key}], FALSE)

\* The accounts the tests of the role fixtures sign up and sign in with.
TestUsers ==
    {[name |-> "Al", email |-> <<"u", "@", "x">>, password |-> "TestPass1!"],
     [name |-> "Bo", email |-> <<"v", "@", "x">>, password |-> "TestPass1!"]}

(***************************************************************************)
(* The test-data generators of TestHelpers and ApiTestHelpers. A string is *)
(* the sequence of its parts; Date.now() is the clock `now`, and the       *)
(* random suffix Math.random().toString(36).substring(7) is one of         *)
(* Suffixes.                                                               *)
(***************************************************************************)
MaxCalls == 2       \* most generator calls recorded

GenerateEmail(time, rnd) ==
    <<"test-", ToString(time), "-">> \o rnd \o <<"@example.com">>

GenerateName(time) == <<"Test User ", ToString(time)>>

GeneratePassword(time) == <<"TestPass", ToString(time), "!">>

ApiGenerateTodoText(time, rnd) == <<"Test Todo ", ToString(time), " - ">> \o rnd

ApiGenerateEmail(time, rnd) ==
    <<"test-", ToString(time), "-">> \o rnd \o <<"@example.com">>

GenerateUserData(time, rnd) ==
    [name |-> <<"Test User ", ToString(time)>>,
     email |-> ApiGenerateEmail(time, rnd),
     password |-> <<"TestPass", ToString(time), "!">>]

UserDataFields == {"name", "email", "password"}

GenFns ==
    {"generateEmail", "generateName", "generatePassword", "generateTodoText",
     "ApiTestHelpers.generateTodoText", "ApiTestHelpers.generateEmail"}

\* The value a call of generator fn returns at clock value time.
GenValue(fn, time, rnd) ==
    CASE fn = "generateEmail" -> GenerateEmail(time, rnd)
      [] fn = "generateName" -> GenerateName(time)
      [] fn = "generatePassword" -> GeneratePassword(time)
      [] fn = "generateTodoText" -> GenerateTodoText(time, rnd)
      [] fn = "ApiTestHelpers.generateTodoText" -> ApiGenerateTodoText(time, rnd)
      [] fn = "ApiTestHelpers.generateEmail" -> ApiGenerateEmail(time, rnd)

\* Test run `run` calls a generator.
Generate(fn, run, rnd) ==
    /\ Len(gen) < MaxCalls
    /\ gen' = Append(gen, [fn |-> fn, field |-> "", run |-> run,
                            time |-> now, value |-> GenValue(fn, now, rnd)])
    /\ UNCHANGED <<todoVars, perfVars, authVars, apiLogger, lastCall,
                   procVars>>

\* Test run `run` calls ApiTestHelpers.generateUserData and uses one field.
GenerateUserDataField(field, run, rnd) ==
    /\ Len(gen) < MaxCalls
    /\ gen' = Append(gen, [fn |-> "ApiTestHelpers.generateUserData",
                            field |-> field, run |-> run, time |-> now,
                            value |-> GenerateUserData(now, rnd)[field]])
    /\ UNCHANGED <<todoVars, perfVars, authVars, apiLogger, lastCall,
                   procVars>>

(***************************************************************************)
(* The request logger of the home-page fixture: one RequestLogger made     *)
(* when the test file is loaded and attached to the fixture with           *)
(* requestHooks. It records every request of the browser whose URL matches *)
(* its pattern; a URL is the sequence of its path segments.                *)
(***************************************************************************)
MaxTests == 3       \* most tests of the fixture that are run
MaxLogged == 3      \* most requests the logger records

HomeUrl == <<>>
HealthCheckUrl == <<"trpc", "healthCheck">>

\* RequestLogger(/\/trpc/, ...): the URLs the logger records.
LoggerPattern(url) == \E i \in 1..Len(url) : url[i] = "trpc"

NewLogger == [requests |-> <<>>, test |-> 0]

\* The requests the browser makes when it loads the home page: the document
\* and the health check of the API status section.
HomePageRequests == <<HomeUrl, HealthCheckUrl>>

\* The logger when the next test of the fixture starts: nothing in the
\* fixture or its beforeEach hook clears it.
LoggerAtTestStart(log) == [log EXCEPT !.test = @ + 1]

\* The logger after the browser made the requests urls, in this order.
LogRequests(log, urls) ==
    LET Entry(u) == [url |-> u, test |-> log.test]
        matched == SelectSeq(urls, LoggerPattern)
    IN  [log EXCEPT !.requests =
            @ \o [i \in 1..Len(matched) |-> Entry(matched[i])]]

\* apiLogger.clear().
LoggerClear(log) == [log EXCEPT !.requests = <<>>]

\* The start of a test of the fixture: its beforeEach calls
\* t.useRole(guestUser).
HomeStartTest ==
    /\ apiLogger.test < MaxTests
    /\ StartTestEffect("guestUser", TRUE)
    /\ apiLogger' = LoggerAtTestStart(apiLogger)
    /\ UNCHANGED <<gen, lastCall, procVars>>

\* HomePage.open() and BasePage.refresh() in a test of the fixture.
HomeOpen ==
    /\ apiLogger.test > 0
    /\ Len(apiLogger.requests) < MaxLogged
    /\ TestStepEffect("openHome", NoTrip.user, Navigate(web, "/"), FALSE)
    /\ apiLogger' = LogRequests(apiLogger, HomePageRequests)
    /\ UNCHANGED <<gen, lastCall, procVars>>

HomeRefresh ==
    /\ apiLogger.test > 0
    /\ Len(apiLogger.requests) < MaxLogged
    /\ TestStepEffect("refresh", NoTrip.user, Navigate(web, web.path), FALSE)
    /\ apiLogger' = LogRequests(apiLogger,
                        IF web.path = "/" THEN HomePageRequests ELSE <<>>)
    /\ UNCHANGED <<gen, lastCall, procVars>>

\* The assertion t.expect(apiLogger.requests.length).gt(0).
ExpectLogged ==
    /\ apiLogger.test > 0
    /\ TestStepEffect("expectLogged", NoTrip.user, web,
                      ~(Len(apiLogger.requests) > 0))
    /\ UNCHANGED helpVars

\* apiLogger.clear() in a test body.
ClearLogger ==
    /\ apiLogger.test > 0
    /\ TestStepEffect("clearLogger", NoTrip.user, web, FALSE)
    /\ apiLogger' = LoggerClear(apiLogger)
    /\ UNCHANGED <<gen, lastCall, procVars>>

(***************************************************************************)
(* DashboardPage.verifyUserLoggedIn. The optional argument expectedName is *)
(* [given, name]: given is FALSE when the caller passes no argument.       *)
(***************************************************************************)
NoCall == [fn |-> "none", input |-> <<>>, result |-> FALSE]

NoName == [given |-> FALSE, name |-> ""]

ExpectedNames == {NoName} \cup {[given |-> TRUE, name |-> n] : n \in Names \cup {""}}

\* DashboardPage.isLoaded: the heading "Dashboard" exists.
DashboardIsLoaded(w) == w.path = "/dashboard"

\* if (expectedName): undefined and the empty string are both falsy.
Truthy(e) == e.given /\ e.name # ""

VerifyUserLoggedIn(w, e) ==
    IF ~DashboardIsLoaded(w) THEN FALSE
    ELSE IF Truthy(e) THEN DisplayedName(w) = e.name
    ELSE TRUE

\* A test calls DashboardPage.verifyUserLoggedIn(e).
VerifyUserLoggedInCall(e) ==
    /\ TestStepEffect("verifyUserLoggedIn", NoTrip.user, web, FALSE)
    /\ lastCall' = [fn |-> "verifyUserLoggedIn", input |-> e,
                    result |-> VerifyUserLoggedIn(web, e)]
    /\ UNCHANGED <<gen, apiLogger, procVars>>

(***************************************************************************)
(* A test of a fixture whose beforeEach uses the role made by              *)
(* createCustomUserRole; the LoginPage calls of the role's setup are kept  *)
(* when the setup runs.                                                    *)
(***************************************************************************)
CustomUsers == TestUsers \cup {RoleUser("customUser")}

StartCustomTest ==
    LET r == "customUser"
        start == Navigate(CleanRun(Navigate(CleanRun(web), "/")),
                          RoleLoginUrl(r))
    IN  /\ StartTestEffect(r, TRUE)
        /\ lastCall' = IF roles[r].phase = "uninitialized"
                       THEN [fn |-> "createCustomUserRole",
                             input |-> RoleUser(r),
                             result |-> CustomSetup(r, start).calls]
                       ELSE NoCall
        /\ UNCHANGED <<gen, apiLogger, procVars>>

(***************************************************************************)
(* WaitConditions.waitForUrl(t, expectedUrl, timeout). Times are in        *)
(* milliseconds from the call. The browser's URL comes to contain          *)
(* expectedUrl at most once, at time reachedAt (Never when it does not),   *)
(* and each t.eval reads the URL at the time the loop has counted.         *)
(***************************************************************************)
Interval == 100
MaxTimeout == 200       \* largest timeout passed
Never == 0 - 1

WaitTimeouts == {x \in 0..MaxTimeout : x % 50 = 0}
ReachTimes == {x \in 0..(MaxTimeout + Interval) : x % 50 = 0} \cup {Never}

waitFrame ==
    <<todoVars, perfVars, authVars, gen, apiLogger, lastCall, clearing,
      counting>>

NoWaiter ==
    [pc |-> "idle", timeout |-> 0, elapsed |-> 0, polls |-> 0,
     reachedAt |-> Never]

\* currentUrl.includes(expectedUrl), read at time `time`.
UrlIncludes(reachedAt, time) == reachedAt # Never /\ reachedAt <= time

\* while (elapsed < timeout)
LoopTest(elapsed, timeout) == elapsed < timeout

\* The call: elapsed = 0, and the loop is entered.
WaitForUrl(timeout, reachedAt) ==
    /\ waiter.pc \in {"idle", "returned", "thrown"}
    /\ waiter' = [pc |-> "loop", timeout |-> timeout, elapsed |-> 0,
                  polls |-> 0, reachedAt |-> reachedAt]
    /\ UNCHANGED waitFrame

\* One pass of the loop up to its await of the delay: read the URL and
\* return when it includes expectedUrl.
WaitForUrlPoll ==
    /\ waiter.pc = "loop"
    /\ LoopTest(waiter.elapsed, waiter.timeout)
    /\ waiter' = [waiter EXCEPT
                     !.polls = @ + 1,
                     !.pc = IF UrlIncludes(waiter.reachedAt, waiter.elapsed)
                            THEN "returned" ELSE "delay"]
    /\ UNCHANGED waitFrame

\* await TestHelpers.delay(interval); elapsed += interval.
WaitForUrlDelay ==
    /\ waiter.pc = "delay"
    /\ waiter' = [waiter EXCEPT !.elapsed = @ + Interval, !.pc = "loop"]
    /\ UNCHANGED waitFrame

\* The loop ends without a return: throw the timeout error.
WaitForUrlThrow ==
    /\ waiter.pc = "loop"
    /\ ~LoopTest(waiter.elapsed, waiter.timeout)
    /\ waiter' = [waiter EXCEPT !.pc = "thrown"]
    /\ UNCHANGED waitFrame

(***************************************************************************)
(* HomePage.waitForApiReady(timeout). Times are in milliseconds from the   *)
(* call. The page's API status section is described by two times: the      *)
(* status indicator exists from indicatorAt on, and the status text reads  *)
(* "Connected" from connectedAt on (Never when it does not).               *)
(***************************************************************************)
SettleWait == 1000
MaxApiTimeout == 3000   \* largest timeout passed

ApiTimeouts == {x \in 0..MaxApiTimeout : x % 1000 = 0}
StatusTimes == {x \in 0..(MaxApiTimeout + SettleWait) : x % 500 = 0} \cup {Never}

\* The status text the page shows at time `time`.
GetApiStatus(connectedAt, time) ==
    IF connectedAt # Never /\ connectedAt <= time THEN "Connected"
    ELSE "Checking..."

\* BasePage.waitForElement(selector, timeout) for an element that exists
\* from existsAt on: the time the wait ends, or Never when it times out.
WaitForElement(existsAt, timeout) ==
    IF existsAt # Never /\ existsAt <= timeout THEN existsAt ELSE Never

WaitForApiReady(timeout, indicatorAt, connectedAt) ==
    LET found == WaitForElement(indicatorAt, timeout)
    IN  IF found = Never THEN "wait timeout"
        ELSE IF GetApiStatus(connectedAt, found + SettleWait) # "Connected"
        THEN "API is not connected"
        ELSE "returned"

\* A test calls homePage.waitForApiReady(timeout) on a page whose status
\* section appears at indicatorAt and connects at connectedAt.
WaitForApiReadyCall(timeout, indicatorAt, connectedAt) ==
    /\ indicatorAt = Never => connectedAt = Never
    /\ connectedAt # Never => indicatorAt <= connectedAt
    /\ lastCall' = [fn |-> "waitForApiReady",
                    input |-> [timeout |-> timeout,
                               indicatorAt |-> indicatorAt,
                               connectedAt |-> connectedAt],
                    result |-> WaitForApiReady(timeout, indicatorAt,
                                               connectedAt)]
    /\ UNCHANGED <<todoVars, perfVars, authVars, gen, apiLogger, procVars>>

(***************************************************************************)
(* ApiClient.query / mutate / batch. A JavaScript value is [type, val];    *)
(* a JSON text is the sequence of its tokens; an HTTP response is          *)
(* [status, body], and a tRPC envelope is [hasResult, data].               *)
(***************************************************************************)
Undefined == [type |-> "undefined", val |-> ""]

JsValues ==
    {Undefined,
     [type |-> "null", val |-> ""],
     [type |-> "number", val |-> "0"],
     [type |-> "number", val |-> "1"],
     [type |-> "string", val |-> ""],
     [type |-> "string", val |-> "a"],
     [type |-> "boolean", val |-> "false"],
     [type |-> "object", val |-> "id"]}

\* if (input): the values JavaScript takes as true.
JsTruthy(v) ==
    CASE v.type \in {"undefined", "null"} -> FALSE
      [] v.type = "number" -> v.val # "0"
      [] v.type = "string" -> v.val # ""
      [] v.type = "boolean" -> v.val = "true"
      [] OTHER -> TRUE

\* JSON.stringify(v) for a value that is passed.
JsonStringify(v) ==
    CASE v.type = "null" -> <<"null">>
      [] v.type = "string" -> <<"\"", v.val, "\"">>
      [] v.type = "object" -> <<"{", "\"", v.val, "\"", ":", "1", "}">>
      [] OTHER -> <<v.val>>

HttpStatuses == {199, 200, 299, 300, 400, 500}

\* response.ok
ResponseOk(response) == response.status >= 200 /\ response.status <= 299

Envelopes ==
    {[hasResult |-> TRUE, data |-> [type |-> "string", val |-> "a"]],
     [hasResult |-> TRUE, data |-> [type |-> "number", val |-> "0"]],
     [hasResult |-> FALSE, data |-> Undefined]}

Responses == [status : HttpStatuses, body : Envelopes]

\* data.result?.data
Unwrap(envelope) == IF envelope.hasResult THEN envelope.data ELSE Undefined

Throws(response) == [kind |-> "throws", status |-> response.status]
Returns(value) == [kind |-> "returns", value |-> value]

\* The request of ApiClient.query: GET /trpc/<procedure>, with the input
\* appended as a query parameter.
QueryRequest(procedure, input) ==
    [method |-> "GET", path |-> <<"trpc", procedure>>,
     params |-> IF JsTruthy(input)
                THEN <<[name |-> "input", value |-> JsonStringify(input)]>>
                ELSE <<>>,
     body |-> <<>>]

\* The request of ApiClient.mutate: POST /trpc/<procedure> with a JSON body.
MutateRequest(procedure, input) ==
    [method |-> "POST", path |-> <<"trpc", procedure>>, params |-> <<>>,
     body |-> JsonStringify(input)]

\* What query and mutate do with the response.
Outcome(response) ==
    IF ~ResponseOk(response) THEN Throws(response)
    ELSE Returns(Unwrap(response.body))

\* What batch does with the response, whose body is a list of envelopes.
BatchOutcome(response) ==
    IF ~ResponseOk(response) THEN Throws(response)
    ELSE Returns([i \in 1..Len(response.body) |-> Unwrap(response.body[i])])

Procedures == {"healthCheck", "todo.getAll"}

apiFrame == <<todoVars, perfVars, authVars, gen, apiLogger, procVars>>

\* apiClient.query(procedure, input), answered by response.
QueryCall(procedure, input, response) ==
    /\ lastCall' = [fn |-> "query", input |-> input, response |-> response,
                    request |-> QueryRequest(procedure, input),
                    result |-> Outcome(response)]
    /\ UNCHANGED apiFrame

\* apiClient.mutate(procedure, input), answered by response.
MutateCall(procedure, input, response) ==
    /\ lastCall' = [fn |-> "mutate", input |-> input, response |-> response,
                    request |-> MutateRequest(procedure, input),
                    result |-> Outcome(response)]
    /\ UNCHANGED apiFrame

\* apiClient.batch of two requests, answered by a list of two envelopes.
BatchCall(status, first, second) ==
    LET response == [status |-> status, body |-> <<first, second>>]
    IN  /\ lastCall' = [fn |-> "batch", input |-> Undefined,
                        response |-> response,
                        request |-> [method |-> "POST", path |-> <<"trpc">>,
                                     params |-> <<>>, body |-> <<>>],
                        result |-> BatchOutcome(response)]
        /\ UNCHANGED apiFrame

(***************************************************************************)
(* TodosPage.clearAllTodos on the /todos page of one session. The call     *)
(* yields at each await: the count, the delete of row 0, the next count.   *)
(***************************************************************************)
NoClearing == [pc |-> "idle", count |-> 0, deletes |-> 0, rows |-> 0]

clearFrame == <<perfVars, authVars, gen, apiLogger, lastCall, waiter, counting>>

\* A loop test that stops with one row left.
ClearLoopTestSkipsLast(count) == count > 1

\* while (count > 0)
ClearLoopTest(count) == count > 0

\* TodosPage.deleteTodo(index): click the delete button of row index
\* (counted from 0).
DeleteTodo(list, index) == ClickDelete(list, index + 1)

\* The call: let count = await this.getTodoCount().
ClearAllTodos ==
    /\ clearing.pc \in {"idle", "done"}
    /\ clearing' = [pc |-> "loop", count |-> GetTodoCount(todos),
                    deletes |-> 0, rows |-> Len(todos)]
    /\ TodoStep("clearAllTodos", <<>>, TRUE)
    /\ UNCHANGED <<todos, nextId, issued, sessVars, clearFrame>>

\* await this.deleteTodo(0), in the loop.
ClearDelete ==
    /\ clearing.pc = "loop"
    /\ ClearLoopTest(clearing.count)
    /\ todos' = DeleteTodo(todos, 0)
    /\ clearing' = [clearing EXCEPT !.deletes = @ + 1, !.pc = "recount"]
    /\ TodoStep("deleteTodo", <<>>, TRUE)
    /\ UNCHANGED <<nextId, issued, sessVars, clearFrame>>

\* await this.waitForTodosLoad(); count = await this.getTodoCount().
ClearRecount ==
    /\ clearing.pc = "recount"
    /\ clearing' = [clearing EXCEPT !.count = GetTodoCount(todos),
                                    !.pc = "loop"]
    /\ TodoStep("getTodoCount", <<>>, TRUE)
    /\ UNCHANGED <<todos, nextId, issued, sessVars, clearFrame>>

\* The loop ends and the call returns.
ClearReturn ==
    /\ clearing.pc = "loop"
    /\ ~ClearLoopTest(clearing.count)
    /\ clearing' = [clearing EXCEPT !.pc = "done"]
    /\ TodoStep("clearAllTodos", <<>>, TRUE)
    /\ UNCHANGED <<todos, nextId, issued, sessVars, clearFrame>>

\* The test adds a todo while no clearAllTodos call is running.
AddTodoBetweenClears(text) ==
    /\ clearing.pc \in {"idle", "done"}
    /\ AddTodo(text)

(***************************************************************************)
(* TodosPage.getIncompleteTodosCount in the session Counter, while the     *)
(* other session works on the shared table. The call yields at each await: *)
(* the total count, the second count, each row's isTodoCompleted. The rows *)
(* it reads are those of the session's page, view[Counter]; the page may   *)
(* fetch the table again between two reads.                                *)
(***************************************************************************)
Counter == "A"

NoCounting ==
    [pc |-> "idle", total |-> 0, count |-> 0, i |-> 0, completed |-> 0,
     result |-> 0]

countFrame ==
    <<todoVars, perfVars, authVars, gen, apiLogger, lastCall, waiter,
      clearing>>

\* The page of session s fetches the table again (the query's refetch).
Refetch(s) ==
    /\ UNCHANGED <<todos, nextId, issued, owner, burst>>
    /\ SessStep("refetch", s, <<>>, 0, TRUE)

\* TodosPage.isTodoCompleted(index): aria-checked of the row's checkbox.
IsTodoCompleted(list, index) == list[index + 1].completed

\* The call: const total = await this.getTodoCount().
GetIncompleteTodosCount ==
    /\ counting.pc \in {"idle", "done", "thrown"}
    /\ counting' = [NoCounting EXCEPT !.pc = "count",
                                      !.total = GetTodoCount(view[Counter])]
    /\ UNCHANGED countFrame

\* getCompletedTodosCount: const count = await this.getTodoCount().
CountCompletedStart ==
    /\ counting.pc = "count"
    /\ counting' = [counting EXCEPT !.pc = "rows",
                                    !.count = GetTodoCount(view[Counter])]
    /\ UNCHANGED countFrame

\* getCompletedTodosCount: one pass of the loop; reading a row that is no
\* longer on the page fails.
CountCompletedRow ==
    /\ counting.pc = "rows"
    /\ counting.i < counting.count
    /\ counting' =
           IF counting.i + 1 > Len(view[Counter])
           THEN [counting EXCEPT !.pc = "thrown"]
           ELSE [counting EXCEPT
                    !.i = @ + 1,
                    !.completed =
                        IF IsTodoCompleted(view[Counter], counting.i)
                        THEN @ + 1 ELSE @]
    /\ UNCHANGED countFrame

\* The loop ends: return total - completed.
CountReturn ==
    /\ counting.pc = "rows"
    /\ counting.i >= counting.count
    /\ counting' = [counting EXCEPT
                       !.pc = "done",
                       !.result = counting.total - counting.completed]
    /\ UNCHANGED countFrame

InitHelp ==
    /\ gen = <<>>
    /\ apiLogger = NewLogger
    /\ lastCall = NoCall
    /\ waiter = NoWaiter
    /\ clearing = NoClearing
    /\ counting = NoCounting

Init == InitTodos /\ InitPerf /\ InitAuth /\ InitHelp

NextTodos ==
    \/ \E text \in Texts : AddTodo(text)
    \/ \E text \in Texts : ToggleTodoByText(text)
    \/ \E text \in Texts : DeleteTodoByText(text)

SpecTodos == Init /\ [][NextTodos]_vars

NextApi ==
    \/ \E text \in ApiTexts : ApiCreate(text)
    \/ \E id \in 1..MaxId, completed \in BOOLEAN : ApiToggle(id, completed)
    \/ \E id \in 1..MaxId : ApiDelete(id)

SpecApi == Init /\ [][NextApi]_vars

NextSessions ==
    \/ \E s \in Sessions, rnd \in Suffixes : SessionAddTodo(s, rnd)
    \/ \E s \in Sessions : \E text \in OwnTexts(s) :
           SessionToggleTodoByText(s, text)
    \/ \E s \in Sessions : \E text \in OwnTexts(s) :
           SessionDeleteTodoByText(s, text)
    \/ \E s \in Sessions : Refresh(s)

SpecSessions == Init /\ [][NextSessions]_vars

NextCount ==
    \/ \E s \in Sessions : ReadCount(s)
    \/ \E s \in Sessions, rnd \in Suffixes : SessionAddTodo(s, rnd)
    \/ \E s \in Sessions : \E text \in OwnTexts(s) :
           SessionDeleteTodoByText(s, text)

SpecCount == Init /\ [][NextCount]_vars

NextPerf ==
    \/ \E key \in PerfKeys : PerfStart(key)
    \/ \E key \in PerfKeys : PerfEnd(key)
    \/ Tick

SpecPerf == Init /\ [][NextPerf]_vars

NextAuth ==
    \/ StartTest("guestUser", TRUE)
    \/ OpenLogin
    \/ OpenDashboard
    \/ OpenHome
    \/ SwitchToSignIn
    \/ SwitchToSignUp
    \/ \E n \in Names, e \in Emails, p \in Passwords : SignUp(n, e, p)
    \/ \E e \in Emails, p \in Passwords : SignIn(e, p)
    \/ \E n \in Names, e \in Emails, p \in Passwords : FillSignUpForm(n, e, p)
    \/ ClearForm
    \/ SubmitForm
    \/ Logout
    \/ \E k \in StorageKeys : SetItem(k)

SpecAuth == Init /\ [][NextAuth]_vars

NextRoles ==
    \/ \E r \in RoleNames, healthy \in BOOLEAN : StartTest(r, healthy)
    \/ StartPlainTest
    \/ OpenLogin
    \/ OpenDashboard
    \/ \E u \in TestUsers : SignUp(u.name, u.email, u.password)
    \/ \E u \in TestUsers : SignIn(u.email, u.password)
    \/ Logout
    \/ \E k \in StorageKeys : SetItem(k)

SpecRoles == Init /\ [][NextRoles]_vars

NextGen ==
    \/ \E fn \in GenFns, run \in Sessions, rnd \in Suffixes :
           Generate(fn, run, rnd)
    \/ \E field \in UserDataFields, run \in Sessions, rnd \in Suffixes :
           GenerateUserDataField(field, run, rnd)
    \/ Tick

SpecGen == Init /\ [][NextGen]_vars

NextLog ==
    \/ HomeStartTest
    \/ HomeOpen
    \/ HomeRefresh
    \/ ExpectLogged
    \/ ClearLogger
    \/ OpenLogin
    \/ OpenDashboard

SpecLog == Init /\ [][NextLog]_vars

NextDash ==
    \/ StartPlainTest
    \/ OpenLogin
    \/ OpenDashboard
    \/ \E u \in TestUsers : SignUp(u.name, u.email, u.password)
    \/ \E u \in TestUsers : SignIn(u.email, u.password)
    \/ Logout
    \/ \E e \in ExpectedNames : VerifyUserLoggedInCall(e)

SpecDash == Init /\ [][NextDash]_vars

NextCustom ==
    \/ StartCustomTest
    \/ StartPlainTest
    \/ OpenLogin
    \/ OpenDashboard
    \/ \E u \in CustomUsers : SignUp(u.name, u.email, u.password)
    \/ \E u \in CustomUsers : SignIn(u.email, u.password)
    \/ Logout

SpecCustom == Init /\ [][NextCustom]_vars

NextWait ==
    \/ \E timeout \in WaitTimeouts, reachedAt \in ReachTimes :
           WaitForUrl(timeout, reachedAt)
    \/ WaitForUrlPoll
    \/ WaitForUrlDelay
    \/ WaitForUrlThrow

SpecWait == Init /\ [][NextWait]_vars

NextReady ==
    \E timeout \in ApiTimeouts, indicatorAt \in StatusTimes,
       connectedAt \in StatusTimes :
        WaitForApiReadyCall(timeout, indicatorAt, connectedAt)

SpecReady == Init /\ [][NextReady]_vars

NextClient ==
    \/ \E pr \in Procedures, input \in JsValues, response \in Responses :
           QueryCall(pr, input, response)
    \/ \E pr \in Procedures, input \in JsValues \ {Undefined},
          response \in Responses :
           MutateCall(pr, input, response)
    \/ \E status \in HttpStatuses, first \in Envelopes, second \in Envelopes :
           BatchCall(status, first, second)

SpecClient == Init /\ [][NextClient]_vars

NextClear ==
    \/ \E text \in Texts : AddTodoBetweenClears(text)
    \/ ClearAllTodos
    \/ ClearDelete
    \/ ClearRecount
    \/ ClearReturn

\* Every awaited call of a running clearAllTodos completes.
SpecClear ==
    /\ Init
    /\ [][NextClear]_vars
    /\ WF_vars(ClearDelete)
    /\ WF_vars(ClearRecount)
    /\ WF_vars(ClearReturn)

NextIncomplete ==
    \/ \E s \in Sessions \ {Counter}, rnd \in Suffixes : SessionAddTodo(s, rnd)
    \/ \E s \in Sessions \ {Counter} : \E text \in OwnTexts(s) :
           SessionToggleTodoByText(s, text)
    \/ \E s \in Sessions \ {Counter} : \E text \in OwnTexts(s) :
           SessionDeleteTodoByText(s, text)
    \/ Refetch(Counter)
    \/ GetIncompleteTodosCount
    \/ CountCompletedStart
    \/ CountCompletedRow
    \/ CountReturn

SpecIncomplete == Init /\ [][NextIncomplete]_vars


(***************************************************************************)
(* Claims about the todo list.                                             *)
(***************************************************************************)
IsTodoStep(op) == lastTodoOp'.op = op /\ lastTodoOp'.ok

\* C1: for every list and every text t that no row matches, addTodo(t) makes
\* getTodoCount exactly one larger and todoExists(t) true.
C1_AddTodoAddsOneRow ==
    [][(IsTodoStep("addTodo") /\ ~TodoExists(todos, lastTodoOp'.arg))
        => /\ GetTodoCount(todos') = GetTodoCount(todos) + 1
           /\ TodoExists(todos', lastTodoOp'.arg)]_vars

\* addTodo has run on a list of other rows, and its row is the only match.
C1_Witness ==
    /\ lastTodoOp.op = "addTodo"
    /\ Len(todos) >= 2
    /\ Cardinality(GetTodoByText(todos, lastTodoOp.arg)) = 1

C3_DeleteThenGone ==
    [][IsTodoStep("deleteTodoByText")
        => /\ GetTodoCount(todos') = GetTodoCount(todos) - 1
           /\ \E i \in GetTodoByText(todos, lastTodoOp'.arg) :
                  todos' = RemoveAt(todos, i)
           /\ ~TodoExists(todos', lastTodoOp'.arg)]_vars

\* C3 as amended: deleteTodoByText(text) removes exactly the first row whose
\* label contains text and leaves every other row; todoExists(text) is then
\* false exactly when that row was the only match.
C3_DeleteRemovesFirstMatch ==
    [][IsTodoStep("deleteTodoByText")
        => LET text == lastTodoOp'.arg
               S == GetTodoByText(todos, text)
           IN  /\ GetTodoCount(todos') = GetTodoCount(todos) - 1
               /\ todos' = RemoveAt(todos, FirstOf(S))
               /\ TodoExists(todos', text) <=> Cardinality(S) >= 2]_vars

\* deleteTodoByText has removed the only match and other rows remain.
C3_Witness ==
    /\ lastTodoOp.op = "deleteTodoByText"
    /\ lastTodoOp.ok
    /\ Len(todos) >= 2
    /\ ~TodoExists(todos, lastTodoOp.arg)

(***************************************************************************)
(* Claims about PerformanceHelper.                                         *)
(***************************************************************************)

\* C10: end(key) returns a duration exactly when key was started and not ended
\* since its last start; otherwise it throws and leaves the timer map as it
\* was. A successful end(key) removes key (and only key), so end(key) called
\* again at once throws.
C10_EndPairsWithStart ==
    [][lastPerfOp'.op = "end"
        => LET key == lastPerfOp'.key
           IN  /\ (lastPerfOp'.result = "duration") <=> (key \in pending)
               /\ (lastPerfOp'.result = "throw") <=> (key \notin pending)
               /\ lastPerfOp'.result = "throw" => measurements' = measurements
               /\ lastPerfOp'.result = "duration"
                      => /\ lastPerfOp'.value = now - measurements[key]
                         /\ lastPerfOp'.value >= 0
                         /\ DOMAIN measurements' = DOMAIN measurements \ {key}
                         /\ \A k \in DOMAIN measurements' :
                                measurements'[k] = measurements[k]
                         /\ EndThrows(measurements', key)]_vars

\* end has thrown for one key, after time has passed, while the other key is
\* still running.
C10_Witness ==
    /\ lastPerfOp.op = "end"
    /\ lastPerfOp.result = "throw"
    /\ now > 1
    /\ pending # {}

(***************************************************************************)
(* Claims about sign-up, sign-in and logout.                               *)
(***************************************************************************)

\* C4: from a guest session, signUp with fresh valid credentials ends on
\* /dashboard, and when the test then re-opens /login (no logout in between)
\* and calls signIn with the same credentials it ends on /dashboard again,
\* the dashboard showing the same user name both times.
C4_RoundTripReachesDashboard ==
    trip.stage \in {"signedUp", "signedIn"}
        => /\ web.path = "/dashboard"
           /\ DisplayedName(web) = trip.user.name

\* C9: after logout(t) in an authenticated browser no cookie or local-storage
\* entry remains, getSession returns no session and a navigation to
\* /dashboard is redirected to /login.
C9_LogoutInvalidatesSession ==
    lastAuthOp.op = "logout"
        => /\ web.cookies = {}
           /\ web.localStorage = {}
           /\ GetSession(web) = NoUser
           /\ Navigate(web, "/dashboard").path = "/login"

\* The form a sign-up submit of the last step sent: the arguments of signUp,
\* or the fields submitForm found in the sign-up form.
SignUpSubmitted ==
    /\ lastAuthOp'.op \in {"signUp", "submitForm"}
    /\ lastAuthOp'.ok
    /\ lastAuthOp'.op = "submitForm" => IsOnSignUpForm(web)

\* C5: submitting the sign-up form with an invalid email, a password shorter
\* than 8 characters or all fields empty stays on /login, creates no account
\* and no session, and shows exactly the messages of the invalid fields.
C5_InvalidSignUpStays ==
    [][LET f == lastAuthOp'.arg
       IN  (/\ SignUpSubmitted
            /\ \/ ~ValidEmail(f.email)
               \/ Len(f.password) < MinPasswordLen
               \/ f = EmptyForm)
               => /\ web'.path = "/login"
                  /\ web'.users = web.users
                  /\ web'.cookies = web.cookies
                  /\ GetSession(web') = NoUser
                  /\ NameError \in web'.errors <=> Len(f.name) < MinNameLen
                  /\ EmailError \in web'.errors <=> ~ValidEmail(f.email)
                  /\ PasswordError \in web'.errors
                         <=> Len(f.password) < MinPasswordLen]_vars

C5_Witness ==
    /\ lastAuthOp.op = "submitForm"
    /\ lastAuthOp.ok
    /\ lastAuthOp.arg = EmptyForm
    /\ IsOnSignUpForm(web)
    /\ web.users # {}
    /\ web.errors = {NameError, EmailError, PasswordError}

(***************************************************************************)
(* Claims about the role fixtures.                                         *)
(***************************************************************************)

C7_SetupOnceThenReapplied ==
    [][\A r \in RoleNames :
          /\ roles'[r].runs <= 1
          /\ ~(lastAuthOp'.op = "useRole" /\ lastAuthOp'.role = r)
                 => roles'[r] = roles[r]
          /\ (lastAuthOp'.op = "useRole" /\ lastAuthOp'.role = r)
                 => IF roles[r].phase = "uninitialized"
                    THEN /\ roles'[r].runs = 1
                         /\ roles'[r].phase = "initialized"
                         /\ lastAuthOp'.ok =>
                                roles'[r].snapshot =
                                    [cookies |-> web'.cookies,
                                     localStorage |-> web'.localStorage]
                    ELSE /\ roles'[r] = roles[r]
                         /\ lastAuthOp'.ok =>
                                /\ web'.cookies = roles[r].snapshot.cookies
                                /\ web'.localStorage =
                                       roles[r].snapshot.localStorage]_vars

C7_Witness ==
    /\ lastAuthOp.op = "useRole"
    /\ lastAuthOp.role = "regularUser"
    /\ lastAuthOp.ok
    /\ ~lastAuthOp.setup
    /\ roles["regularUser"].runs = 1
    /\ web.cookies = {SessionCookie(RoleUser("regularUser").email)}
    /\ \E u \in TestUsers : u \in web.users

\* C8: once a role's setup has failed it is never run again and the role
\* gets no session: every later test that requests the role fails, and a
\* test that requests another role, or none, does not fail because of it.
C8_FailedSetupNeverRetried ==
    [][/\ \A r \in RoleNames :
              roles[r].initErr
                  => /\ roles'[r] = roles[r]
                     /\ roles[r].snapshot = NoSnapshot
                     /\ (lastAuthOp'.op = "useRole" /\ lastAuthOp'.role = r)
                            => testFailed' /\ ~lastAuthOp'.ok
       /\ \A r \in RoleNames :
              (/\ lastAuthOp'.op = "useRole"
               /\ lastAuthOp'.role = r
               /\ roles[r].phase = "initialized"
               /\ ~roles[r].initErr)
                  => ~testFailed' /\ lastAuthOp'.ok
       /\ lastAuthOp'.op = "startTest" => ~testFailed']_vars

C8_Witness ==
    /\ lastAuthOp.op = "useRole"
    /\ lastAuthOp.role = "regularUser"
    /\ ~lastAuthOp.ok
    /\ ~lastAuthOp.setup
    /\ testFailed
    /\ roles["regularUser"].initErr
    /\ roles["guestUser"].phase = "initialized"
    /\ ~roles["guestUser"].initErr

(***************************************************************************)
(* Claims about the todo API.                                              *)
(***************************************************************************)

\* C11: todo.create with empty text is rejected with a status of 400 or
\* more and creates nothing: getAll returns the same todos before and after,
\* and no stored todo has empty text.
C11_EmptyTextRejected ==
    [][/\ (lastApiOp'.op = "create" /\ lastApiOp'.text = <<>>)
              => /\ lastApiOp'.status >= 400
                 /\ GetAll(todos') = GetAll(todos)
       /\ \A i \in 1..Len(todos') : GetAll(todos')[i].text # <<>>]_vars

C11_Witness ==
    /\ lastApiOp.op = "create"
    /\ lastApiOp.text = <<>>
    /\ lastApiOp.status = StatusBadRequest
    /\ Len(todos) >= 2

\* C12: a successful todo.create({text}) with non-empty text adds exactly one
\* todo, which getAll returns with that text, a numeric id no other todo has
\* and completed = false; the todos there before are unchanged.
C12_CreateAddsOneTodo ==
    [][(lastApiOp'.op = "create" /\ lastApiOp'.status = StatusOk)
          => \E j \in 1..Len(todos') :
                /\ GetAll(todos')[j].text = lastApiOp'.text
                /\ GetAll(todos')[j].completed = FALSE
                /\ GetAll(todos')[j].id \in Nat \ TodoIds(todos)
                /\ RemoveAt(GetAll(todos'), j) = GetAll(todos)]_vars

C12_Witness ==
    /\ lastApiOp.op = "create"
    /\ lastApiOp.status = StatusOk
    /\ lastApiOp.text # <<>>
    /\ Len(todos) >= 2
    /\ todos[1].completed

\* C13: after todo.toggle({id, completed: c}) on an existing id, getAll
\* returns that todo with completed = c and its text unchanged, and every
\* other todo unchanged; none is added or removed.
C13_ToggleSetsOneTodo ==
    [][(lastApiOp'.op = "toggle" /\ lastApiOp'.id \in TodoIds(todos))
          => /\ Len(GetAll(todos')) = Len(GetAll(todos))
             /\ \A i \in 1..Len(todos) :
                   IF todos[i].id = lastApiOp'.id
                   THEN GetAll(todos')[i] =
                            Todo(todos[i].id, todos[i].text,
                                 lastApiOp'.completed)
                   ELSE GetAll(todos')[i] = todos[i]]_vars

C13_Witness ==
    /\ lastApiOp.op = "toggle"
    /\ lastApiOp.completed
    /\ Len(todos) >= 2
    /\ \E i, j \in 1..Len(todos) :
          /\ todos[i].id = lastApiOp.id
          /\ todos[i].completed
          /\ ~todos[j].completed

\* C14: after todo.delete({id}) on an existing id, getAll has no todo with
\* that id, and every other todo is still there with its text and completed
\* state.
C14_DeleteRemovesOneTodo ==
    [][(lastApiOp'.op = "delete" /\ lastApiOp'.id \in TodoIds(todos))
          => /\ lastApiOp'.id \notin TodoIds(GetAll(todos'))
             /\ Len(GetAll(todos')) = Len(GetAll(todos)) - 1
             /\ \A i \in 1..Len(todos) :
                   todos[i].id # lastApiOp'.id
                       => \E j \in 1..Len(todos') :
                              GetAll(todos')[j] = todos[i]]_vars

C14_Witness ==
    /\ lastApiOp.op = "delete"
    /\ lastApiOp.id \in issued
    /\ lastApiOp.id \notin TodoIds(todos)
    /\ Len(todos) >= 2
    /\ \E i \in 1..Len(todos) : todos[i].id > lastApiOp.id
    /\ \E i \in 1..Len(todos) : todos[i].id < lastApiOp.id

\* C15: no two stored todos share an id, and a create never assigns an id
\* that was assigned before, even when the todo that had it was deleted.
C15_IdsUniqueNeverReused ==
    [][/\ \A i, j \in 1..Len(todos') :
              i # j => todos'[i].id # todos'[j].id
       /\ (lastApiOp'.op = "create" /\ lastApiOp'.status = StatusOk)
              => /\ lastApiOp'.id \notin issued
                 /\ lastApiOp'.id \in TodoIds(todos')]_vars

C15_Witness ==
    /\ lastApiOp.op = "create"
    /\ lastApiOp.status = StatusOk
    /\ \E d \in issued :
          /\ d \notin TodoIds(todos)
          /\ \A r \in TodoIds(todos) \ {lastApiOp.id} : r < d
    /\ Len(todos) >= 2

(***************************************************************************)
(* Claims about the /todos page and the sessions that share the table.     *)
(***************************************************************************)

\* C16: a todo added with addTodo(t) is kept by the server: a page refresh
\* changes no todo, and after it todoExists(t) is true for the text just
\* added and for every stored todo the session created.
C16_TodosSurviveRefresh ==
    [][\A s \in Sessions :
          (lastSessOp'.op = "refresh" /\ lastSessOp'.session = s)
              => /\ todos' = todos
                 /\ (/\ lastSessOp.op = "addTodo"
                     /\ lastSessOp.session = s
                     /\ lastSessOp.ok)
                        => TodoExists(view'[s], lastSessOp.text)
                 /\ \A i \in 1..Len(todos) :
                        owner[todos[i].id] = s
                            => TodoExists(view'[s], todos[i].text)]_vars

C16_Witness ==
    /\ lastSessOp.op = "refresh"
    /\ lastSessOp.session = "A"
    /\ Len(todos) = 2
    /\ \E i \in 1..Len(todos) :
          owner[todos[i].id] = "A" /\ TodoExists(view["A"], todos[i].text)
    /\ view["B"] # todos

\* C19: with two sessions on the shared table, each using texts from
\* generateTodoText, a by-text call of a session for one of its own texts
\* never acts on a row the other session created.
C19_SessionsIsolated ==
    [][(/\ lastSessOp'.op \in {"toggleTodoByText", "deleteTodoByText"}
        /\ lastSessOp'.ok)
          => owner[lastSessOp'.id] = lastSessOp'.session]_vars

C17_DashboardGuarded ==
    [][/\ lastAuthOp'.op = "openDashboard"
              => web'.path = (IF GetSession(web) = NoUser THEN "/login"
                              ELSE "/dashboard")
       /\ web'.path = "/dashboard"
              => /\ GetSession(web') # NoUser
                 /\ web'.routeSession = GetSession(web')
                 /\ DisplayedName(web') =
                        UserName(web'.users, GetSession(web'))]_vars

C17_Witness ==
    /\ lastAuthOp.op = "openDashboard"
    /\ web.path = "/login"
    /\ GetSession(web) = NoUser
    /\ web.users # {}

\* C18: a fresh load of /login by a guest shows the sign-up form; on /login
\* exactly one of the two forms is shown; switchToSignIn moves the sign-up
\* form to the sign-in form and switchToSignUp moves it back.
C18_OneFormShown ==
    [][/\ (lastAuthOp'.op = "openLogin" /\ GetSession(web) = NoUser)
              => IsOnSignUpForm(web') /\ ~IsOnSignInForm(web')
       /\ web'.path = "/login"
              => IsOnSignUpForm(web') # IsOnSignInForm(web')
       /\ (lastAuthOp'.op = "switchToSignIn" /\ IsOnSignUpForm(web))
              => IsOnSignInForm(web') /\ ~IsOnSignUpForm(web')
       /\ (lastAuthOp'.op = "switchToSignUp" /\ IsOnSignInForm(web))
              => IsOnSignUpForm(web') /\ ~IsOnSignInForm(web')]_vars

C18_Witness ==
    /\ lastAuthOp.op = "switchToSignIn"
    /\ IsOnSignInForm(web)
    /\ ~IsOnSignUpForm(web)
    /\ GetSession(web) = NoUser

(***************************************************************************)
(* Claims about the test helpers.                                          *)
(***************************************************************************)
\* C21: any two values the test-data generators return are distinct, also
\* for two calls in the same millisecond, for calls of parallel test runs
\* and for every value of the random suffix.
C21_GeneratedValuesDistinct ==
    \A i, j \in 1..Len(gen) :
        i # j => gen[i].value # gen[j].value

\* C22: request-log entries are scoped to a single test: the logger holds
\* no entry captured during an earlier test, so an assertion on
\* apiLogger.requests can only be satisfied by requests of the running test.
C22_LogScopedToTest ==
    \A i \in 1..Len(apiLogger.requests) :
        apiLogger.requests[i].test = apiLogger.test

\* C23: verifyUserLoggedIn(expectedName) returns true exactly when the
\* "Dashboard" heading exists and, if an expected name is provided (the
\* empty string included), the name parsed from the welcome message equals
\* it.
C23_VerifyMatchesDisplayedName ==
    [][lastAuthOp'.op = "verifyUserLoggedIn"
          => (lastCall'.result <=>
                 /\ DashboardIsLoaded(web)
                 /\ (lastCall'.input.given
                        => DisplayedName(web) = lastCall'.input.name))]_vars

\* C24: on the login page switchToSignUp and switchToSignIn leave the target
\* form shown whichever form was shown before; when the target form is
\* already shown they change nothing (no click, the typed fields stay); so
\* signUp always fills and submits the sign-up form: it either creates the
\* account or stays on the sign-up form with the typed fields.
C24_SwitchIsIdempotent ==
    [][/\ (lastAuthOp'.op = "switchToSignUp" /\ web.path = "/login")
              => IsOnSignUpForm(web') /\ ~IsOnSignInForm(web')
       /\ (lastAuthOp'.op = "switchToSignIn" /\ web.path = "/login")
              => IsOnSignInForm(web') /\ ~IsOnSignUpForm(web')
       /\ (lastAuthOp'.op = "switchToSignUp" /\ IsOnSignUpForm(web))
              => web' = web
       /\ (lastAuthOp'.op = "switchToSignIn" /\ IsOnSignInForm(web))
              => web' = web
       /\ (lastAuthOp'.op = "signUp" /\ web.path = "/login")
              => IF web'.path = "/login"
                 THEN /\ IsOnSignUpForm(web')
                      /\ web'.form = lastAuthOp'.arg
                      /\ web'.users = web.users
                 ELSE /\ lastAuthOp'.arg \in web'.users \ web.users
                      /\ GetSession(web') = lastAuthOp'.arg.email]_vars

\* switchToSignUp was called with the sign-up form already shown and filled.
C24_Witness ==
    /\ lastAuthOp.op = "switchToSignUp"
    /\ IsOnSignUpForm(web)
    /\ web.form # EmptyForm

\* The setup of the custom role ran in the step and ended.
CustomSetupRan ==
    /\ lastAuthOp'.op = "useRole"
    /\ lastAuthOp'.role = "customUser"
    /\ lastAuthOp'.setup
    /\ lastAuthOp'.ok

\* C25 as claimed: the custom role's setup signs in first and signs up only
\* when the sign-in attempt left the browser on /login, and when it ends the
\* browser holds a session for the role's email whether or not the account
\* existed beforehand.
C25_CustomSetupEndsSignedIn ==
    [][CustomSetupRan
          => /\ lastCall'.result \in {<<"signIn">>, <<"signIn", "signUp">>}
             /\ GetSession(web') = RoleUser("customUser").email]_vars

\* C25 as amended: the setup signs in first; it signs up exactly when the
\* sign-in attempt failed; it ends with a session for the role's email when
\* the account existed with the role's password or no account had the
\* email, and without a session and without a new account when the email
\* was taken by an account with another password.
C25_CustomSetupSignsInFirst ==
    [][CustomSetupRan
          => LET u == RoleUser("customUser")
                 existed == u.email \in Registered(web.users)
                 known == \E a \in web.users :
                              a.email = u.email /\ a.password = u.password
                 calls == lastCall'.result
             IN  /\ calls[1] = "signIn"
                 /\ calls = IF known THEN <<"signIn">>
                            ELSE <<"signIn", "signUp">>
                 /\ known => /\ GetSession(web') = u.email
                             /\ web'.users = web.users
                 /\ ~existed => /\ GetSession(web') = u.email
                                /\ web'.users = web.users \cup {u}
                 /\ (existed /\ ~known)
                        => /\ GetSession(web') = NoUser
                           /\ web'.users = web.users]_vars

\* The setup ran where the account existed with the role's password: it
\* signed in and did not sign up.
C25_Witness ==
    /\ lastAuthOp.op = "useRole"
    /\ lastAuthOp.role = "customUser"
    /\ lastAuthOp.setup
    /\ lastCall.result = <<"signIn">>
    /\ GetSession(web) = RoleUser("customUser").email

\* ceil(timeout / Interval)
CeilPolls(timeout) == (timeout + Interval - 1) \div Interval

\* C26: waitForUrl makes at most ceil(timeout/100) polls; it returns
\* normally whenever the URL contains expectedUrl at the time of the call or
\* comes to contain it before timeout ms have elapsed, for every timeout
\* including 0, and otherwise throws.
C26_WaitForUrlReturnsWhenReached ==
    LET reached == /\ waiter.reachedAt # Never
                   /\ \/ waiter.reachedAt = 0
                      \/ waiter.reachedAt < waiter.timeout
    IN  /\ waiter.polls <= CeilPolls(waiter.timeout)
        /\ waiter.pc = "thrown" => ~reached
        /\ waiter.pc = "returned" => reached

\* C27: waitForApiReady(timeout) returns normally if the API status text
\* comes to contain "Connected" at any time within timeout ms of the call,
\* and throws only if the status never shows "Connected" within that time.
C27_ReadyWithinTimeoutReturns ==
    lastCall.fn = "waitForApiReady"
        => ((/\ lastCall.input.connectedAt # Never
             /\ lastCall.input.connectedAt <= lastCall.input.timeout)
                => lastCall.result = "returned")

\* C28: query, mutate and batch throw an Error carrying the status whenever
\* the response is not ok (status outside 200-299) and return the unwrapped
\* result.data only for an ok response; query appends the JSON-encoded
\* input as the "input" query parameter for every input value that is
\* passed.
C28_ClientThrowsOrUnwraps ==
    lastCall.fn \in {"query", "mutate", "batch"}
        => LET status == lastCall.response.status
               ok == status >= 200 /\ status <= 299
           IN  /\ ~ok => lastCall.result = [kind |-> "throws",
                                            status |-> status]
               /\ ok => lastCall.result.kind = "returns"
               /\ (ok /\ lastCall.fn # "batch" /\ lastCall.response.body.hasResult)
                      => lastCall.result.value = lastCall.response.body.data
               /\ (lastCall.fn = "query" /\ lastCall.input # Undefined)
                      => /\ Len(lastCall.request.params) = 1
                         /\ lastCall.request.params[1].name = "input"

\* C29: with one row removed by each deleteTodo(0) and no todo added
\* meanwhile, clearAllTodos terminates for every initial list; when it
\* returns getTodoCount is 0, and it has issued exactly as many deletes as
\* there were rows (none for an empty list).
C29_ClearAllTodosEmptiesList ==
    /\ [][(clearing'.pc = "done" /\ clearing.pc # "done")
             => /\ GetTodoCount(todos') = 0
                /\ clearing'.deletes = clearing'.rows]_vars
    /\ [](clearing.pc \in {"loop", "recount"}
             => clearing.deletes + Len(todos) = clearing.rows)
    /\ (clearing.pc = "loop") ~> (clearing.pc = "done")

\* A clearAllTodos call returned after it deleted two or more rows.
C29_Witness ==
    /\ clearing.pc = "done"
    /\ clearing.rows >= 2
    /\ clearing.deletes = clearing.rows
    /\ GetTodoCount(todos) = 0

\* The rows of a list whose checkbox is not aria-checked.
IncompleteRows(list) == {i \in 1..Len(list) : ~list[i].completed}

\* C30: getIncompleteTodosCount returns a value between 0 and the total
\* count, equal to the number of rows whose checkbox is not aria-checked,
\* also when another session adds, toggles or deletes todos between the
\* helper's reads.
C30_IncompleteCountIsExact ==
    [][(counting'.pc = "done" /\ counting.pc = "rows")
          => /\ counting'.result >= 0
             /\ counting'.result <= GetTodoCount(view'[Counter])
             /\ counting'.result =
                    Cardinality(IncompleteRows(view'[Counter]))]_vars

====
